---- MODULE Spec2Model ----
(***************************************************************************)
(* GlassifyNotes: the export path of the sticky-note editor.               *)
(*                                                                         *)
(* Two programs are modelled side by side, selected by the variable impl:  *)
(*   "main" : src/main.py, class NoteApp (window and exporter in one)      *)
(*   "mvc"  : src/2.py, classes NoteModel / NoteView / NoteController      *)
(*                                                                         *)
(* The rich-text buffer is the HTML string QTextEdit.toHtml() returns.  It *)
(* is modelled as a sequence of lexical tokens (start tag, end tag, one    *)
(* character of text); the character "\n" is a token of its own because    *)
(* the text-mode file write treats it specially.                           *)
(***************************************************************************)
EXTENDS Integers, Sequences, FiniteSets, TLC

VARIABLES impl, linesep, buffer, current_file, files, tempfiles, running,
          exports, keys, last

vars == <<impl, linesep, buffer, current_file, files, tempfiles, running,
          exports, keys, last>>

(***************************************************************************)
(* Bounds of the model.                                                    *)
(***************************************************************************)
\* export attempts (calls of save_to_file) in one run of the application
MaxExports == 3
\* characters typed into the editor in one run of the application
MaxKeys == 1
\* length, in tokens, of the documents of the conversion specification
MaxLen == 4

(***************************************************************************)
(* Tokens of an HTML string.                                               *)
(***************************************************************************)
Start(n) == [k |-> "start", name |-> n, src |-> <<>>]
End(n) == [k |-> "end", name |-> n, src |-> <<>>]
Text(c) == [k |-> "text", name |-> c, src |-> <<>>]
\* <img src="...">: src is the attribute value cut at its commas, so that
\* str.split(",") is the sequence itself; <<>> stands for no src attribute
\* (a src attribute that is present always has at least one piece).
Img(s) == [k |-> "start", name |-> "img", src |-> s]

LF == Text("\n")
CR == Text("\r")

Range(s) == {s[i] : i \in 1..Len(s)}

RECURSIVE FlattenFrom(_, _)
FlattenFrom(ss, i) ==
    IF i > Len(ss) THEN <<>> ELSE ss[i] \o FlattenFrom(ss, i + 1)

\* the sequences of ss joined
Flatten(ss) == FlattenFrom(ss, 1)

\* a suffix test that takes upper-case letters for their lower-case ones
Lower(c) ==
    CASE c = "D" -> "d" [] c = "O" -> "o" [] c = "C" -> "c" [] c = "X" -> "x"
      [] OTHER -> c

EndsWithAnyCase(s, suffix) ==
    /\ Len(s) >= Len(suffix)
    /\ \A i \in 1..Len(suffix) :
           Lower(s[Len(s) - Len(suffix) + i]) = Lower(suffix[i])

(***************************************************************************)
(* str.endswith                                                            *)
(***************************************************************************)
EndsWith(s, suffix) ==
    /\ Len(s) >= Len(suffix)
    /\ SubSeq(s, Len(s) - Len(suffix) + 1, Len(s)) = suffix

DotDocx == <<".", "d", "o", "c", "x">>

(***************************************************************************)
(* open(file_name, "w", encoding="utf-8") ... file.write(content)          *)
(* A text-mode file opened with the default newline=None writes each "\n"  *)
(* as os.linesep.                                                          *)
(***************************************************************************)
TextWrite(content, sep) ==
    Flatten([i \in 1..Len(content) |->
                IF content[i] = LF THEN sep ELSE <<content[i]>>])

(***************************************************************************)
(* BeautifulSoup(html_content, "html.parser")                              *)
(* The tree is kept as the sequence of its nodes in document order; each   *)
(* node names its parent by position (0 is the BeautifulSoup root object). *)
(***************************************************************************)
VoidTags == {"img", "br"}
Whitespace == {" ", "\n", "\r", "\t", "\f"}

TagNode(n, parent, s) ==
    [kind |-> "tag", name |-> n, parent |-> parent, src |-> s, text |-> <<>>]
StrNode(parent, t) ==
    [kind |-> "str", name |-> "", parent |-> parent, src |-> <<>>, text |-> t]

Top(stack) == IF stack = <<>> THEN 0 ELSE stack[Len(stack)]

\* endData: the pending characters become one string node under the open
\* tag; a run of whitespace only is reduced to one "\n" or one " ".
EndData(ps) ==
    IF ps.data = <<>> THEN ps
    ELSE LET t == IF Range(ps.data) \subseteq Whitespace
                  THEN IF "\n" \in Range(ps.data) THEN <<"\n">> ELSE <<" ">>
                  ELSE ps.data
         IN [ps EXCEPT !.nodes = Append(@, StrNode(Top(ps.stack), t)),
                       !.data = <<>>]

\* _popToTag: the open tags are closed down to and including the innermost
\* open tag of that name; an end tag with no open tag of its name is ignored.
PopToTag(ps, n) ==
    LET hits == {i \in 1..Len(ps.stack) : ps.nodes[ps.stack[i]].name = n}
    IN IF hits = {} THEN ps
       ELSE LET i == CHOOSE h \in hits : \A g \in hits : g <= h
            IN [ps EXCEPT !.stack = SubSeq(@, 1, i - 1)]

Feed(ps, tok) ==
    CASE tok.k = "text" -> [ps EXCEPT !.data = Append(@, tok.name)]
      [] tok.k = "start" ->
            LET f == EndData(ps)
                g == [f EXCEPT !.nodes =
                          Append(@, TagNode(tok.name, Top(f.stack), tok.src))]
            IN IF tok.name \in VoidTags THEN g
               ELSE [g EXCEPT !.stack = Append(@, Len(g.nodes))]
      [] tok.k = "end" -> PopToTag(EndData(ps), tok.name)

RECURSIVE FeedAll(_, _)
FeedAll(ps, toks) ==
    IF toks = <<>> THEN ps ELSE FeedAll(Feed(ps, Head(toks)), Tail(toks))

BeautifulSoup(content) ==
    EndData(FeedAll([nodes |-> <<>>, stack |-> <<>>, data |-> <<>>],
                    content)).nodes

\* soup.body: the first tag named body in document order, or None (0)
Body(soup) ==
    LET bs == {i \in 1..Len(soup) : soup[i].kind = "tag" /\ soup[i].name = "body"}
    IN IF bs = {} THEN 0 ELSE CHOOSE b \in bs : \A c \in bs : b <= c

RECURSIVE Inside(_, _, _)
\* node i lies below node a
Inside(soup, i, a) ==
    IF i = 0 THEN FALSE
    ELSE soup[i].parent = a \/ Inside(soup, soup[i].parent, a)

RECURSIVE Below(_, _, _)
\* the positions from i on of the nodes below a, in document order
Below(soup, a, i) ==
    IF i > Len(soup) THEN <<>>
    ELSE (IF Inside(soup, i, a) THEN <<i>> ELSE <<>>) \o Below(soup, a, i + 1)

\* the children of a only, not what lies below them
ChildrenOnly(soup, a) ==
    Flatten([i \in 1..Len(soup) |-> IF soup[i].parent = a THEN <<i>> ELSE <<>>])

\* element.descendants
Descendants(soup, a) == Below(soup, a, 1)

\* the strings that are children of the element, joined
GetOwnText(soup, a) ==
    Flatten([j \in 1..Len(soup) |->
                IF soup[j].kind = "str" /\ soup[j].parent = a
                THEN soup[j].text ELSE <<>>])

\* element.get_text(): the strings below the element, joined
GetText(soup, a) ==
    LET d == Descendants(soup, a)
    IN Flatten([j \in 1..Len(d) |->
                   IF soup[d[j]].kind = "str" THEN soup[d[j]].text ELSE <<>>])

(***************************************************************************)
(* Library calls on an image source.  The payloads are a table of example  *)
(* strings with what the library makes of each.                            *)
(***************************************************************************)
Header == "data:image/png;base64"
\* base64 text of a PNG image, of a CMYK JPEG image, of the bytes "hello";
\* a string whose length is no multiple of four; a string of characters
\* outside the base64 alphabet
B64Png == "iVBORw0KGgo="
B64Cmyk == "/9j/7gAOQWRvYmU="
B64Hello == "aGVsbG8="
B64Short == "abcde"
NotB64 == "!!!!"

\* base64.b64decode(img_data): characters outside the alphabet are dropped
\* (validate=False), wrong padding raises binascii.Error
B64Decode(s) ==
    CASE s = B64Png -> [ok |-> TRUE, bytes |-> "png"]
      [] s = B64Cmyk -> [ok |-> TRUE, bytes |-> "jpeg-cmyk"]
      [] s = B64Hello -> [ok |-> TRUE, bytes |-> "hello"]
      [] s = NotB64 -> [ok |-> TRUE, bytes |-> ""]
      [] OTHER -> [ok |-> FALSE, bytes |-> ""]

\* Image.open(image_stream) recognises the bytes of an image
ImageOpen(bytes) == bytes \in {"png", "jpeg-cmyk"}

\* image.save(temp_image, format="PNG"): PNG has no CMYK mode
PngSave(bytes) == bytes = "png"

PictureWidthInches == 4

Paragraph(t) == [e |-> "paragraph", text |-> t, width |-> 0, tmp |-> 0]
Picture(f) == [e |-> "picture", text |-> <<>>, width |-> PictureWidthInches, tmp |-> f]

\* tempfile.NamedTemporaryFile(suffix=".png", delete=False): a name no
\* existing temporary file has
NamedTemporaryFile(temps) ==
    CHOOSE n \in 1..(Cardinality(temps) + 1) : n \notin temps

\* a temporary file that is deleted when it is closed (delete=True)
CloseAndDelete(temps, f) == temps \ {f}

\* what the with statement leaves of the temporary file when it ends
CloseTemporaryFile(temps, f) == temps

(***************************************************************************)
(* The image branch of the conversion loop.  st is the conversion state:   *)
(* doc (the entries of the document), temps (the temporary files that      *)
(* exist), err (<<>> or the exception), calls (library calls made).        *)
(***************************************************************************)
Raise(st, cause) == [st EXCEPT !.err = <<cause>>]

\* with NamedTemporaryFile(...) as temp_image: image.save(temp_image, "PNG"),
\* then document.add_picture(<its name>, width=Inches(4))
SaveAndAdd(st, bytes, f) ==
    IF ~PngSave(bytes)
    THEN Raise([st EXCEPT !.temps = CloseTemporaryFile(@ \cup {f}, f),
                          !.calls = @ \cup {"NamedTemporaryFile"}], "OSError")
    ELSE [st EXCEPT !.temps = CloseTemporaryFile(@ \cup {f}, f),
                    !.doc = Append(@, Picture(f)),
                    !.calls = @ \cup {"NamedTemporaryFile", "add_picture"}]

\* image_bytes = base64.b64decode(img_data); image = Image.open(...)
OpenAndAdd(st, dec) ==
    IF ~dec.ok THEN Raise(st, "binascii.Error")
    ELSE IF ~ImageOpen(dec.bytes) THEN Raise(st, "UnidentifiedImageError")
    ELSE SaveAndAdd(st, dec.bytes, NamedTemporaryFile(st.temps))

\* an image branch that passes over a source it cannot split
AddImageSkipping(st, element) ==
    IF element.src = <<>> \/ Len(element.src) < 2 THEN st
    ELSE OpenAndAdd(st, B64Decode(element.src[2]))

\* img_data = element["src"].split(",")[1]
AddImage(st, element) ==
    IF element.src = <<>> THEN Raise(st, "KeyError")
    ELSE IF Len(element.src) < 2 THEN Raise(st, "IndexError")
    ELSE OpenAndAdd(st, B64Decode(element.src[2]))

\* NoteModel._add_image_to_doc: any exception is raised again with a prefix
WrapImage(st) ==
    IF st.err = <<>> THEN st
    ELSE [st EXCEPT !.err = <<"Image processing failed">> \o @]

\* one turn of `for element in soup.body.descendants`
Visit(app, st, soup, i) ==
    IF soup[i].name = "p"
    THEN [st EXCEPT !.doc = Append(@, Paragraph(GetText(soup, i))),
                    !.calls = @ \cup {"add_paragraph"}]
    ELSE IF soup[i].name = "img"
    THEN IF app = "mvc" THEN WrapImage(AddImage(st, soup[i]))
         ELSE AddImage(st, soup[i])
    ELSE st

RECURSIVE Loop(_, _, _, _)
Loop(app, st, soup, d) ==
    IF d = <<>> \/ st.err # <<>> THEN st
    ELSE Loop(app, Visit(app, st, soup, Head(d)), soup, Tail(d))

\* the modelled file system has one directory, the working directory: a
\* path with a directory part names a directory that does not exist
CanCreate(path) == "/" \notin Range(path)

NoFile == [kind |-> "none", text |-> <<>>, doc |-> <<>>]
TextFile(t) == [kind |-> "text", text |-> t, doc |-> <<>>]
DocxFile(d) == [kind |-> "docx", text |-> <<>>, doc |-> d]

(***************************************************************************)
(* NoteApp.save_as_docx / NoteModel._save_as_docx                          *)
(* The result: err, temps, calls as above, and file: what is at the        *)
(* destination afterwards (old is what was there before).                  *)
(***************************************************************************)
\* for element in soup.body.descendants: ...
Convert(app, st, soup, body) ==
    IF body = 0 THEN Raise(st, "AttributeError")
    ELSE Loop(app, st, soup, Descendants(soup, body))

\* document.save(file_name)
DocumentSave(st, path) ==
    IF st.err # <<>> THEN st
    ELSE IF CanCreate(path)
    THEN [st EXCEPT !.calls = @ \cup {"document.save"}]
    ELSE Raise([st EXCEPT !.calls = @ \cup {"document.save"}],
               "FileNotFoundError")

\* NoteModel._save_as_docx raises any exception again with a prefix
DocxResult(app, st, old) ==
    [err |-> IF st.err # <<>> /\ app = "mvc"
             THEN <<"DOCX conversion failed">> \o st.err ELSE st.err,
     temps |-> st.temps, calls |-> st.calls,
     file |-> IF st.err = <<>> THEN DocxFile(st.doc) ELSE old]

ParseAndConvert(app, st, soup) == Convert(app, st, soup, Body(soup))

SaveAsDocx(app, content, path, temps, old) ==
    DocxResult(app,
               DocumentSave(
                   ParseAndConvert(app,
                                   [doc |-> <<>>, temps |-> temps, err |-> <<>>,
                                    calls |-> {"Document", "BeautifulSoup"}],
                                   BeautifulSoup(content)),
                   path),
               old)

(***************************************************************************)
(* NoteApp.save_to_file / NoteModel.save_to_file                           *)
(* ret is "True" (NoteModel), "None" (NoteApp) or "raise".                 *)
(***************************************************************************)
WriteHtml(content, path, sep, temps, old) ==
    IF CanCreate(path)
    THEN [err |-> <<>>, temps |-> temps, calls |-> {"open", "write"},
          file |-> TextFile(TextWrite(content, sep))]
    ELSE [err |-> <<"FileNotFoundError">>, temps |-> temps, calls |-> {"open"},
          file |-> old]

\* a save_to_file that answers False where it should raise
OutcomeFalse(app, r) ==
    [ret |-> IF r.err = <<>> THEN (IF app = "mvc" THEN "True" ELSE "None")
             ELSE IF app = "mvc" THEN "False" ELSE "raise",
     err |-> IF app = "mvc" THEN <<>> ELSE r.err,
     temps |-> r.temps, calls |-> r.calls, file |-> r.file]

\* NoteModel.save_to_file returns True, or raises any exception again with a
\* prefix; NoteApp.save_to_file returns nothing and lets exceptions through
Outcome(app, r) ==
    [ret |-> IF r.err # <<>> THEN "raise"
             ELSE IF app = "mvc" THEN "True" ELSE "None",
     err |-> IF r.err # <<>> /\ app = "mvc"
             THEN <<"Save failed">> \o r.err ELSE r.err,
     temps |-> r.temps, calls |-> r.calls, file |-> r.file]

SaveToFile(app, content, path, sep, temps, old) ==
    Outcome(app, IF EndsWith(path, DotDocx)
                 THEN SaveAsDocx(app, content, path, temps, old)
                 ELSE WriteHtml(content, path, sep, temps, old))

(***************************************************************************)
(* The documents and the paths of the application specification.           *)
(***************************************************************************)
Body_ == Start("body")
P == Start("p")
A == Text("a")
B == Text("b")
ImgPng == Img(<<Header, B64Png>>)

Contents ==
    { <<>>,
      <<A, LF>>,
      <<Body_, P, A, End("p"), LF, End("body")>>,
      <<Body_, A, Start("span"), B, End("span"), LF>>,
      <<Body_, P, A, ImgPng, B, End("p")>>,
      <<Body_, P, A, P, B, ImgPng, End("p"), End("p")>>,
      <<Body_, P, A, End("p"), ImgPng, Img(<<"note.png">>), P>>,
      <<Body_, ImgPng, Img(<<Header, NotB64>>), ImgPng>>,
      <<Body_, Img(<<Header, B64Short>>)>>,
      <<Body_, Img(<<Header, B64Hello>>)>>,
      <<Body_, ImgPng, Img(<<Header, B64Cmyk>>)>>,
      <<Body_, Img(<<>>)>>,
      <<Body_, Img(<<Header, B64Png, "x">>), LF, ImgPng>>,
      <<Img(<<"note.png">>), Body_, P, A, End("p"), End("body"), P, B>> }

NoteDocx == <<"n", ".", "d", "o", "c", "x">>
NoteUpper == <<"n", ".", "D", "O", "C", "X">>
NotePlain == <<"d", "o", "c", "x">>
GoneDocx == <<"q", "/", "n", ".", "d", "o", "c", "x">>
GoneHtml == <<"q", "/", "n", ".", "h", "t", "m">>

Paths == {NoteDocx, NoteUpper, NotePlain, GoneDocx, GoneHtml}
\* QFileDialog.getSaveFileName returns a path, or "" when cancelled
Cancelled == <<>>
\* self.current_file = None
None == <<>>

\* the file that is there before the application starts
OldNote == TextFile(<<A, B, A, B, A, B, A, B, A, B>>)

Idle == [op |-> "init", prompted |-> FALSE, chosen |-> <<>>, path |-> <<>>,
         ret |-> "none", err |-> <<>>, shown |-> <<>>, calls |-> {},
         quit |-> FALSE]

(***************************************************************************)
(* Construction: NoteApp.__init__ / NoteController.__init__                *)
(***************************************************************************)
Start_(docs, seps) ==
    /\ impl \in {"main", "mvc"}
    /\ linesep \in seps
    /\ buffer \in docs
    /\ current_file = None
    /\ files = [p \in Paths |-> IF p = NotePlain THEN OldNote ELSE NoFile]
    /\ tempfiles = {}
    /\ running = TRUE
    /\ exports = 0
    /\ keys = 0
    /\ last = Idle

\* os.linesep: "\n", or "\r\n" on Windows
LineSeps == {<<LF>>, <<CR, LF>>}

Init == Start_(Contents, LineSeps)

(***************************************************************************)
(* What follows an exception that leaves a key handler of NoteApp: PyQt5   *)
(* either prints the traceback and goes on or aborts the process.          *)
(***************************************************************************)
AfterUnhandled == {TRUE, FALSE}

\* NoteApp.save_as_note assigns current_file before the export,
\* NoteController.save_as_note after it returned True
Remember(app, r, path, old) ==
    IF app = "main" THEN path
    ELSE IF r.ret = "True" THEN path ELSE old

\* NoteController shows the exception's message, or "Save operation failed"
\* when save_to_file returned something false; NoteApp shows nothing
Shown(app, r) ==
    IF app # "mvc" THEN <<>>
    ELSE IF r.ret = "raise" THEN r.err
    ELSE IF r.ret # "True" THEN <<"Save operation failed">>
    ELSE <<>>

\* the handler's state after save_to_file ended as r
Exported(r, op, prompted, path, remember, quits) ==
    /\ files' = [files EXCEPT ![path] = r.file]
    /\ tempfiles' = r.temps
    /\ exports' = exports + 1
    /\ current_file' = IF remember THEN Remember(impl, r, path, current_file)
                       ELSE current_file
    /\ running' \in IF r.ret = "raise" /\ impl = "main" THEN AfterUnhandled
                    ELSE {~quits}
    /\ last' = [op |-> op, prompted |-> prompted,
                chosen |-> IF prompted THEN path ELSE <<>>, path |-> path,
                ret |-> r.ret, err |-> r.err,
                shown |-> Shown(impl, r),
                calls |-> r.calls,
                quit |-> quits /\ r.ret # "raise"]
    /\ UNCHANGED <<impl, linesep, buffer, keys>>

\* the export of the buffer to path from inside a handler
DoExport(op, prompted, path, remember, quits) ==
    Exported(SaveToFile(impl, buffer, path, linesep, tempfiles, files[path]),
             op, prompted, path, remember, quits)

\* a cancelled dialog that returns from the handler before it quits
NoExportStays(op, quits) ==
    /\ running' = TRUE
    /\ last' = [Idle EXCEPT !.op = op, !.prompted = TRUE, !.quit = FALSE]
    /\ UNCHANGED <<impl, linesep, buffer, current_file, files, tempfiles,
                   exports, keys>>

\* a handler whose dialog was cancelled
NoExport(op, quits) ==
    /\ running' = ~quits
    /\ last' = [Idle EXCEPT !.op = op, !.prompted = TRUE, !.quit = quits]
    /\ UNCHANGED <<impl, linesep, buffer, current_file, files, tempfiles,
                   exports, keys>>

\* save_as_note with the dialog's answer
SaveAs(op, file_name, quits) ==
    IF file_name # Cancelled
    THEN DoExport(op, TRUE, file_name, TRUE, quits)
    ELSE NoExport(op, quits)

CanExport == running /\ exports < MaxExports

(***************************************************************************)
(* The handlers.                                                           *)
(***************************************************************************)
\* Ctrl+S
SaveNote ==
    /\ CanExport
    /\ IF current_file # None
       THEN DoExport("save_note", FALSE, current_file, FALSE, FALSE)
       ELSE \E file_name \in Paths \cup {Cancelled} :
                SaveAs("save_note", file_name, FALSE)

\* Ctrl+Shift+S
SaveAsNote ==
    /\ CanExport
    /\ \E file_name \in Paths \cup {Cancelled} :
           SaveAs("save_as_note", file_name, FALSE)

\* Ctrl+Q (NoteApp only)
SaveAndExit ==
    /\ CanExport
    /\ impl = "main"
    /\ IF current_file = None
       THEN \E file_name \in Paths \cup {Cancelled} :
                SaveAs("save_and_exit", file_name, TRUE)
       ELSE DoExport("save_and_exit", FALSE, current_file, FALSE, TRUE)

\* any other key: QTextEdit.keyPressEvent puts the character into the buffer
KeyPress ==
    /\ running
    /\ keys < MaxKeys
    /\ buffer' = Append(buffer, B)
    /\ keys' = keys + 1
    /\ last' = [Idle EXCEPT !.op = "key"]
    /\ UNCHANGED <<impl, linesep, current_file, files, tempfiles, running,
                   exports>>

Next == SaveNote \/ SaveAsNote \/ SaveAndExit \/ KeyPress

Spec == Init /\ [][Next]_vars

(***************************************************************************)
(* The conversion specification: one export to a .docx path of each        *)
(* document of at most MaxLen tokens and of each document of Contents.     *)
(***************************************************************************)
Alphabet ==
    {Body_, End("body"), P, End("p"), A, LF, ImgPng, Img(<<"note.png">>),
     Start("span")}

Docs(n) == UNION {[1..m -> Alphabet] : m \in 0..n}

InitConv == Start_(Docs(MaxLen) \cup Contents, {<<LF>>})

ConvertNote ==
    /\ CanExport
    /\ exports = 0
    /\ SaveAs("save_as_note", NoteDocx, FALSE)

NextConv == ConvertNote

SpecConv == InitConv /\ [][NextConv]_vars

(***************************************************************************)
(* Vocabulary of the properties.                                           *)
(***************************************************************************)
\* the last handler called save_to_file
Exporting(l) == l.ret # "none"
Succeeded(l) == l.ret \in {"True", "None"}

\* the path ends in the five characters . d o c x
LiteralDocx(path) ==
    /\ Len(path) >= 5
    /\ path[Len(path) - 4] = "."
    /\ path[Len(path) - 3] = "d"
    /\ path[Len(path) - 2] = "o"
    /\ path[Len(path) - 1] = "c"
    /\ path[Len(path)] = "x"

DocxCalls == {"Document", "BeautifulSoup", "add_paragraph", "add_picture",
              "NamedTemporaryFile", "document.save"}

\* the strings below node i, joined in document order
TextUnder(soup, i) ==
    Flatten([j \in 1..Len(soup) |->
                IF soup[j].kind = "str" /\ Inside(soup, j, i)
                THEN soup[j].text ELSE <<>>])

\* the p and img elements below node b, in document order
Elements(soup, b) ==
    LET hit(i) == /\ Inside(soup, i, b)
                  /\ soup[i].kind = "tag"
                  /\ soup[i].name \in {"p", "img"}
    IN Flatten([i \in 1..Len(soup) |-> IF hit(i) THEN <<i>> ELSE <<>>])

\* an entry of a document without the name of its temporary file
Shape(entry) == [e |-> entry.e, text |-> entry.text, width |-> entry.width]

ShapeOf(soup, i) ==
    IF soup[i].name = "p"
    THEN [e |-> "paragraph", text |-> TextUnder(soup, i), width |-> 0]
    ELSE [e |-> "picture", text |-> <<>>, width |-> 4]

\* the number of p elements that enclose node j, up to the body b
Enclosing(soup, j, b) ==
    Cardinality({i \in 1..Len(soup) :
                    /\ soup[i].name = "p" /\ soup[i].kind = "tag"
                    /\ Inside(soup, i, b) /\ Inside(soup, j, i)})

RECURSIVE Sum(_, _)
Sum(f, i) == IF i > Len(f) THEN 0 ELSE f[i] + Sum(f, i + 1)

(***************************************************************************)
(* C1: for every destination path and every content, the format is chosen  *)
(* from the path alone: the DOCX conversion runs exactly when the path     *)
(* ends in the literal suffix ".docx"; on every other path (other          *)
(* extension, none, other letter case) no step of the DOCX conversion      *)
(* occurs and the file is opened and written as text.                      *)
(***************************************************************************)
C1_FormatFromPath ==
    Exporting(last) =>
        /\ LiteralDocx(last.path) <=> "Document" \in last.calls
        /\ ~LiteralDocx(last.path) =>
              /\ last.calls \cap DocxCalls = {}
              /\ "open" \in last.calls

\* an upper-case .DOCX path took the passthrough although the content has
\* paragraphs and images
C1_Witness ==
    /\ last.path = NoteUpper
    /\ Succeeded(last)
    /\ P \in Range(buffer) /\ ImgPng \in Range(buffer)
    /\ files[NoteUpper].kind = "text"
    /\ last.calls = {"open", "write"}

(***************************************************************************)
(* C2: after a successful export to a path that does not end in ".docx"    *)
(* the file at that path holds exactly the content string, nothing added   *)
(* and nothing left out, whatever was there before; exporting the same     *)
(* content to the same path again leaves the file as it is.                *)
(***************************************************************************)
C2_HtmlVerbatim ==
    [][(Exporting(last') /\ Succeeded(last') /\ ~LiteralDocx(last'.path)) =>
        /\ files'[last'.path] = TextFile(buffer)
        /\ (Exporting(last) /\ Succeeded(last) /\ last.path = last'.path)
           => files' = files]_vars

(***************************************************************************)
(* C3: for every content with a body, a successful DOCX export leaves a    *)
(* document whose entries are exactly, in document order, one paragraph    *)
(* per p element below the body (holding the joined text below that        *)
(* element) and one picture of width 4 inches per img element below the    *)
(* body; no other node adds an entry.                                      *)
(***************************************************************************)
C3_DocxEntries ==
    (Exporting(last) /\ Succeeded(last) /\ LiteralDocx(last.path)) =>
        LET soup == BeautifulSoup(buffer)
            els == Elements(soup, Body(soup))
            doc == files[last.path].doc
        IN /\ Body(soup) # 0
           /\ files[last.path].kind = "docx"
           /\ Len(doc) = Len(els)
           /\ \A k \in 1..Len(els) : Shape(doc[k]) = ShapeOf(soup, els[k])

\* text before the paragraph adds nothing; the image nested in the
\* (otherwise empty) paragraph follows it
C3_Witness ==
    /\ buffer = <<Body_, A, P, ImgPng>>
    /\ Succeeded(last)
    /\ files[NoteDocx] = DocxFile(<<Paragraph(<<>>), Picture(1)>>)

(***************************************************************************)
(* C4, as claimed: if the content contains an img element whose src is     *)
(* malformed (no comma, or a piece after the comma that is no base64 text  *)
(* of an image), the DOCX export fails as a whole: document.save is not    *)
(* reached and the destination is left as it was.                          *)
(***************************************************************************)
ImagePayloads == {B64Png, B64Cmyk}
Malformed(src) == src # <<>> /\ (Len(src) < 2 \/ src[2] \notin ImagePayloads)

FailsWhole ==
    /\ last'.ret = "raise"
    /\ "document.save" \notin last'.calls
    /\ files' = files
    /\ "add_picture" \in last'.calls => tempfiles' # tempfiles

Causes == {"KeyError", "IndexError", "binascii.Error", "UnidentifiedImageError",
           "OSError", "AttributeError", "FileNotFoundError"}

C6_PlainTextExports ==
    (/\ Exporting(last)
     /\ LiteralDocx(last.path)
     /\ CanCreate(last.path)
     /\ \A i \in 1..Len(buffer) :
            buffer[i].k = "start" => buffer[i].name \notin {"p", "img"})
    => (Succeeded(last) /\ files[last.path] = DocxFile(<<>>))

(***************************************************************************)
(* C7: current_file changes only to the path of an export that succeeded:  *)
(* after a successful export it is that export's path, and a failed export *)
(* or a cancelled dialog leaves it as it was.                              *)
(***************************************************************************)
C7_RememberedPath ==
    [][/\ (Exporting(last') /\ Succeeded(last')) => current_file' = last'.path
       /\ ~(Exporting(last') /\ Succeeded(last')) => current_file' = current_file
      ]_vars

(***************************************************************************)
(* C8: the conversion takes the p and img elements below the body in       *)
(* document order, each as an event of its own: an img nested in a p       *)
(* gives a picture after that p's paragraph.  The text of a string is      *)
(* emitted once for each p element that encloses it, so a p nested in a p  *)
(* gives two paragraphs, the outer one first, and the inner one's text is  *)
(* part of the outer one's.                                                *)
(***************************************************************************)
Within(t, u) ==
    \E from \in 1..(Len(u) - Len(t) + 1) : SubSeq(u, from, from + Len(t) - 1) = t

C8_NestedEvents ==
    (Exporting(last) /\ Succeeded(last) /\ LiteralDocx(last.path)) =>
        LET soup == BeautifulSoup(buffer)
            b == Body(soup)
            els == Elements(soup, b)
            doc == files[last.path].doc
        IN /\ Len(doc) = Len(els)
           /\ \A k \in 1..Len(els) :
                  doc[k].e = IF soup[els[k]].name = "p" THEN "paragraph"
                             ELSE "picture"
           /\ \A k, m \in 1..Len(els) :
                  (soup[els[k]].name = "p" /\ Inside(soup, els[m], els[k])) =>
                      /\ k < m
                      /\ soup[els[m]].name = "p" => Within(doc[m].text, doc[k].text)
           /\ Sum([k \in 1..Len(doc) |-> Len(doc[k].text)], 1)
                = Sum([j \in 1..Len(soup) |->
                          IF soup[j].kind = "str" /\ Inside(soup, j, b)
                          THEN Len(soup[j].text) * Enclosing(soup, j, b)
                          ELSE 0], 1)

\* "b" lies in two p elements and appears in two paragraphs; the image
\* nested in both follows them
C8_Witness ==
    /\ buffer = <<Body_, P, A, P, B, ImgPng, End("p"), End("p")>>
    /\ Succeeded(last)
    /\ files[NoteDocx] = DocxFile(<<Paragraph(<<"a", "b">>), Paragraph(<<"b">>),
                                    Picture(1)>>)

(***************************************************************************)
(* C9: the set of temporary image files only grows; an export adds one     *)
(* new file for each img element the conversion decoded (base64 and        *)
(* Image.open succeeded) before it ended, also when the call then fails,   *)
(* nothing else adds any; the pictures of a saved document name pairwise   *)
(* different files, all of them new.                                       *)
(***************************************************************************)
RECURSIVE Decoded(_, _, _)
\* the img elements, among imgs from k on, decoded before the loop ends
Decoded(soup, imgs, k) ==
    IF k > Len(imgs) THEN 0
    ELSE LET src == soup[imgs[k]].src
         IN IF Len(src) < 2 \/ src[2] \notin ImagePayloads THEN 0
            ELSE IF src[2] # B64Png THEN 1
            ELSE 1 + Decoded(soup, imgs, k + 1)

ExpectedTemps(content, path) ==
    LET soup == BeautifulSoup(content)
        b == Body(soup)
        imgs == Flatten([i \in 1..Len(soup) |->
                            IF Inside(soup, i, b) /\ soup[i].name = "img"
                            THEN <<i>> ELSE <<>>])
    IN IF ~LiteralDocx(path) \/ b = 0 THEN 0 ELSE Decoded(soup, imgs, 1)

C9_TempFilesGrow ==
    [][/\ tempfiles \subseteq tempfiles'
       /\ exports' = exports => tempfiles' = tempfiles
       /\ exports' # exports =>
            /\ Cardinality(tempfiles' \ tempfiles)
                 = ExpectedTemps(buffer, last'.path)
            /\ (Succeeded(last') /\ LiteralDocx(last'.path)) =>
                 LET doc == files'[last'.path].doc
                     pics == {k \in 1..Len(doc) : doc[k].e = "picture"}
                 IN /\ \A k, m \in pics : k # m => doc[k].tmp # doc[m].tmp
                    /\ {doc[k].tmp : k \in pics} = tempfiles' \ tempfiles
      ]_vars

\* a second export added files to those of the first, and failed after
\* decoding an image
C9_Witness ==
    /\ exports >= 2
    /\ last.ret = "raise"
    /\ "NamedTemporaryFile" \in last.calls
    /\ Cardinality(tempfiles) >= 3

(***************************************************************************)
(* C10: save_and_exit of NoteApp makes at most one save attempt and quits  *)
(* whenever that attempt does not raise: with a remembered current_file it *)
(* saves to it without a dialog; with none it opens the dialog, and when   *)
(* the dialog is cancelled the application quits with no file written.     *)
(***************************************************************************)
C10_SaveAndExit ==
    [][last'.op = "save_and_exit" =>
        /\ exports' \in {exports, exports + 1}
        /\ last'.ret # "raise" => (~running' /\ last'.quit)
        /\ current_file # None =>
              /\ ~last'.prompted
              /\ last'.path = current_file
              /\ exports' = exports + 1
        /\ current_file = None => last'.prompted
        /\ (last'.prompted /\ last'.chosen = Cancelled) =>
              /\ ~running'
              /\ exports' = exports
              /\ files' = files /\ tempfiles' = tempfiles
              /\ current_file' = None]_vars

\* Ctrl+Q with nothing saved yet and the dialog cancelled: the application
\* is gone, the typed text is in no file
C10_Witness ==
    /\ last.op = "save_and_exit"
    /\ last.prompted /\ last.chosen = Cancelled
    /\ ~running
    /\ keys = 1
    /\ \A p \in Paths : files[p] \in {NoFile, OldNote}

====
